---- MODULE Spec2Model ----
(***************************************************************************)
(* Model of the CookLang reducer `parse` of src/parser/src/lib.rs: the     *)
(* walk over the parse tree that builds Metadata, merges ingredient         *)
(* mentions with Amount::add and rewrites the instruction text.             *)
(*                                                                          *)
(* Strings are sequences of one-character strings.  f64 values are exact    *)
(* non-negative rationals [n, d] extended with +inf ([1, 0]) and NaN        *)
(* ([0, 0]); rounding of f64 is not modelled.                               *)
(***************************************************************************)
EXTENDS Integers, Sequences, FiniteSets, TLC

\* ------------------------------------------------------------------ bounds
\* longest document (number of nodes visited by the walk) drawn by Init
MaxPieces == 3
\* longest token list of the single mention drawn by FoldInit
MaxTokens == 4

\* ------------------------------------------------------- f64 (as rationals)
RECURSIVE GCD(_, _)
GCD(a, b) == IF b = 0 THEN a ELSE GCD(b, a % b)

Norm(n, d) ==
    IF d = 0 THEN [n |-> IF n = 0 THEN 0 ELSE 1, d |-> 0]
    ELSE LET g == GCD(n, d) IN [n |-> n \div g, d |-> d \div g]

F(n) == [n |-> n, d |-> 1]
FInf == [n |-> 1, d |-> 0]
FNaN == [n |-> 0, d |-> 0]

\* a + b on f64
FAdd(a, b) ==
    IF a = FInf /\ b = FInf THEN FInf
    ELSE Norm(a.n * b.d + b.n * a.d, a.d * b.d)

\* a / b on f64 (x/0 = inf, 0/0 = NaN)
FDiv(a, b) == Norm(a.n * b.d, a.d * b.n)

\* a == 0.0
FIsZero(a) == a.n = 0 /\ a.d # 0

\* ------------------------------------------------------------------ Amount
Single(x) == [tag |-> "Single", vs |-> <<x>>]
Multi(x) == [tag |-> "Multi", vs |-> <<x>>]
Servings(xs) == [tag |-> "Servings", vs |-> xs]
\* Option<Amount>::None; Some(a) is a itself
None == [tag |-> "None", vs |-> <<>>]
\* the panic of a handler, as the value of the operator that panics
Panic == [tag |-> "Panic", vs |-> <<>>]

Min(a, b) == IF a < b THEN a ELSE b

\* a.iter().zip(b.iter()).map(|e| *e.0 + *e.1).collect()
ZipAdd(a, b) == [i \in 1..Min(Len(a), Len(b)) |-> FAdd(a[i], b[i])]

\* a plausible slip: Multi + Single accepted as Multi
AmountAddCoerce(a, b) ==
    IF a.tag = "Servings" /\ b.tag = "Servings" THEN Servings(ZipAdd(a.vs, b.vs))
    ELSE IF a.tag = "Servings" \/ b.tag = "Servings" THEN Panic
    ELSE [tag |-> a.tag, vs |-> <<FAdd(a.vs[1], b.vs[1])>>]

\* impl Add for Amount
AmountAdd(a, b) ==
    CASE a.tag = "Multi" ->
            IF b.tag = "Multi" THEN Multi(FAdd(a.vs[1], b.vs[1])) ELSE Panic
      [] a.tag = "Servings" ->
            IF b.tag = "Servings" THEN Servings(ZipAdd(a.vs, b.vs)) ELSE Panic
      [] a.tag = "Single" ->
            IF b.tag = "Single" THEN Single(FAdd(a.vs[1], b.vs[1])) ELSE Panic

\* ----------------------------------------------------------------- strings
\* s[i..] starts with pat
MatchesAt(s, pat, i) ==
    /\ i + Len(pat) - 1 <= Len(s)
    /\ \A k \in 1..Len(pat) : s[i + k - 1] = pat[k]

RECURSIVE ReplaceAt(_, _, _, _)
ReplaceAt(s, from, to, i) ==
    IF i > Len(s) THEN (IF from = <<>> THEN to ELSE <<>>)
    ELSE IF from = <<>> THEN to \o <<s[i]>> \o ReplaceAt(s, from, to, i + 1)
    ELSE IF MatchesAt(s, from, i) THEN to \o ReplaceAt(s, from, to, i + Len(from))
    ELSE <<s[i]>> \o ReplaceAt(s, from, to, i + 1)

\* str::replace: every non-overlapping match of `from`, left to right
Replace(s, from, to) == ReplaceAt(s, from, to, 1)

Digits == <<"0", "1", "2", "3", "4", "5", "6", "7", "8", "9">>
DigitValue(c) == IF \E k \in 1..10 : Digits[k] = c
                 THEN (CHOOSE k \in 1..10 : Digits[k] = c) - 1 ELSE -1

RECURSIVE ParseDigits(_, _)
ParseDigits(s, acc) ==
    IF s = <<>> THEN acc
    ELSE IF DigitValue(Head(s)) < 0 THEN -1
    ELSE ParseDigits(Tail(s), 10 * acc + DigitValue(Head(s)))

\* usize::from_str: the value, or -1 for Err
ParseUsize(s) == IF s = <<>> THEN -1 ELSE ParseDigits(s, 0)

RECURSIVE Concat(_)
Concat(ss) == IF ss = <<>> THEN <<>> ELSE Head(ss) \o Concat(Tail(ss))

RECURSIVE Count(_, _)
Count(c, s) == IF s = <<>> THEN 0
               ELSE (IF Head(s) = c THEN 1 ELSE 0) + Count(c, Tail(s))

\* -------------------------------------------------- parse tree (tokenizer)
\* A node of the tree pest hands to `parse`: its rule, its matched text
\* (as_str) and its inner nodes.  A token's `inner` holds the as_str of its
\* own inner nodes.
Tok(rule, str, inner) == [rule |-> rule, str |-> str, inner |-> inner]
NameTok(s) == Tok("name", s, <<>>)
TextTok(s) == Tok("text", s, <<>>)
NumberTok(s) == Tok("number", s, <<s>>)
SeparatorTok == Tok("ingredient_separator", <<"|">>, <<>>)
ScalingTok == Tok("scaling", <<"*">>, <<>>)
UnitTok(s) == Tok("unit", s, <<>>)
ModifiedTok(s) == Tok("modified", <<"(">> \o s \o <<")">>, <<s>>)

TokStrs(toks) == [i \in 1..Len(toks) |-> toks[i].str]

Piece(kind, text, inner) == [kind |-> kind, text |-> text, inner |-> inner]
IngredientPiece(toks) ==
    Piece("ingredient", <<"@">> \o Concat(TokStrs(toks)) \o <<"}">>, toks)
CookwarePiece(toks) ==
    Piece("cookware", <<"#">> \o Concat(TokStrs(toks)) \o <<"}">>, toks)
TimerPiece(toks) ==
    Piece("timer", <<"~">> \o Concat(TokStrs(toks)) \o <<"}">>, toks)
\* a comment line: the comment sign, its body, the end of the line
CommentPiece(body) == Piece("comment", <<"/">> \o body \o <<"\n">>, <<>>)
\* a comment span at the end of a step
StepCommentPiece(body) == Piece("step_comment", <<"/">> \o body \o <<"\n">>, <<>>)
\* text of a step outside every span
TextPiece(s) == Piece("other", s, <<>>)
\* a metadata line with one property: its key, then its value (for servings,
\* the tokens of the value)
MetadataPiece(key, parts) ==
    Piece("metadata", <<">">> \o key \o <<":">> \o Concat(parts) \o <<"\n">>,
          <<Tok("property", key \o Concat(parts), <<key>> \o parts)>>)

ServingsKey == <<"s", "e", "r", "v", "i", "n", "g", "s">>

\* the mentions of the documents Init draws
IngredientCatalogue ==
    { IngredientPiece(<<NameTok(<<"s">>), NumberTok(<<"1">>)>>),
      IngredientPiece(<<NameTok(<<"s">>), NumberTok(<<"2">>)>>),
      IngredientPiece(<<NameTok(<<"s">>), NumberTok(<<"2">>), ScalingTok>>),
      IngredientPiece(<<NameTok(<<"s">>), NumberTok(<<"1">>), SeparatorTok,
                        NumberTok(<<"2">>)>>),
      IngredientPiece(<<NameTok(<<"s">>), NumberTok(<<"1">>), SeparatorTok,
                        NumberTok(<<"2">>), SeparatorTok, NumberTok(<<"3">>)>>),
      IngredientPiece(<<NameTok(<<"s">>)>>),
      IngredientPiece(<<NameTok(<<"s">>), NumberTok(<<"1">>), UnitTok(<<"g">>)>>),
      IngredientPiece(<<NameTok(<<"t">>), TextTok(<<"u">>), NumberTok(<<"2">>),
                        ModifiedTok(<<"w">>)>>) }

Catalogue ==
    IngredientCatalogue \cup
    { CookwarePiece(<<NameTok(<<"p">>)>>),
      TimerPiece(<<NumberTok(<<"1">>), UnitTok(<<"m">>)>>),
      CommentPiece(<<"c">>),
      StepCommentPiece(<<"@", "s", "1", "}">>),
      TextPiece(<<"x">>),
      MetadataPiece(<<"k">>, << <<"v">> >>),
      MetadataPiece(ServingsKey, << <<"2">>, <<"|">>, <<"3">> >>) }

Documents == UNION { [1..n -> Catalogue] : n \in 1..MaxPieces }

\* the sub-tokens of the mention FoldInit draws
FoldTokens ==
    { NameTok(<<"s">>), NumberTok(<<"0">>), NumberTok(<<"1">>), NumberTok(<<"2">>),
      SeparatorTok, ScalingTok, UnitTok(<<"g">>), ModifiedTok(<<"w">>),
      TextTok(<<"u">>) }

FoldDocuments ==
    { <<IngredientPiece(toks)>> :
        toks \in UNION { [1..n -> FoldTokens] : n \in 0..MaxTokens } }

\* ------------------------------------------------------------------- state
VARIABLES
    pieces,              \* the nodes of the tree, in the order the walk visits them
    source,              \* successful_parse.as_str()
    source_edited,       \* the edited instruction text
    metadata,            \* the Metadata under construction
    pc,                  \* the node the walk is at
    tk,                  \* inside an ingredient: the sub-token the fold is at; else 0
    name,                \* locals of the ingredient branch
    ingredient_amount,
    ingredient_modified,
    ingredient_unit,
    status,              \* "running", "returned" (Ok(recipe)) or "panicked"
    next_id              \* ids handed out so far (Uuid::new_v4 never repeats)

vars == <<pieces, source, source_edited, metadata, pc, tk, name, ingredient_amount,
          ingredient_modified, ingredient_unit, status, next_id>>

\* Option<String>
NoString == <<>>
SomeString(s) == <<s>>

PieceTexts(ps) == [i \in 1..Len(ps) |-> ps[i].text]

EmptyMetadata ==
    [ servings |-> [some |-> FALSE, v |-> <<>>],
      ominous |-> {},
      ingredients |-> <<>>,
      ingredients_specifiers |-> <<>>,
      cookware |-> <<>>,
      timer |-> <<>> ]

InitWith(doc) ==
    /\ pieces = doc
    /\ source = Concat(PieceTexts(doc))
    /\ source_edited = source
    /\ metadata = EmptyMetadata
    /\ pc = 1
    /\ tk = 0
    /\ name = <<>>
    /\ ingredient_amount = None
    /\ ingredient_modified = NoString
    /\ ingredient_unit = NoString
    /\ status = "running"
    /\ next_id = 0

Init == \E doc \in Documents : InitWith(doc)
FoldInit == \E doc \in FoldDocuments : InitWith(doc)

Walking == status = "running" /\ pc <= Len(pieces)
Cur == pieces[pc]
AtToken(rules) ==
    /\ Walking /\ Cur.kind = "ingredient"
    /\ tk >= 1 /\ tk <= Len(Cur.inner)
    /\ Cur.inner[tk].rule \in rules
CurTok == Cur.inner[tk]

Locals == <<name, ingredient_amount, ingredient_modified, ingredient_unit>>
Input == <<pieces, source>>

\* ------------------------------------------------------------ metadata line
\* the servings of a `servings` value: every token but "|", parsed
ServingTokens(parts) == SelectSeq(parts, LAMBDA t : t # <<"|">>)
ServingsVec(parts) ==
    [i \in 1..Len(ServingTokens(parts)) |-> ParseUsize(ServingTokens(parts)[i])]

\* HashMap::insert
MapInsert(m, k, v) == { e \in m : e[1] # k } \cup { <<k, v>> }

\* one property of a metadata line; [ok |-> FALSE] for a panic
Property(md, prop) ==
    LET key == prop.inner[1]
        parts == Tail(prop.inner)
    IN IF key # ServingsKey
       THEN [ok |-> TRUE,
             md |-> [md EXCEPT !.ominous = MapInsert(@, key, parts[1])]]
       ELSE IF \E i \in 1..Len(ServingsVec(parts)) : ServingsVec(parts)[i] < 0
            THEN [ok |-> FALSE, md |-> md]
            ELSE [ok |-> TRUE,
                  md |-> [md EXCEPT !.servings =
                                       [some |-> TRUE, v |-> ServingsVec(parts)]]]

RECURSIVE Properties(_, _)
Properties(md, props) ==
    IF props = <<>> THEN [ok |-> TRUE, md |-> md]
    ELSE LET r == Property(md, Head(props))
         IN IF r.ok THEN Properties(r.md, Tail(props)) ELSE r

MetadataLine ==
    /\ Walking /\ Cur.kind = "metadata"
    /\ LET r == Properties(metadata, Cur.inner)
       IN /\ metadata' = r.md
          /\ status' = IF r.ok THEN status ELSE "panicked"
          /\ pc' = IF r.ok THEN pc + 1 ELSE pc
    /\ UNCHANGED <<Input, source_edited, tk, Locals, next_id>>

\* ------------------------------------------------------------ comment line
CommentLine ==
    /\ Walking /\ Cur.kind = "comment"
    /\ source_edited' = Replace(source_edited, Cur.text, <<>>)
    /\ pc' = pc + 1
    /\ UNCHANGED <<Input, metadata, tk, Locals, status, next_id>>

\* --------------------------------------------------------- ingredient span
BeginIngredient ==
    /\ Walking /\ Cur.kind = "ingredient" /\ tk = 0
    /\ source_edited' = Replace(source_edited, Cur.text, <<"@">>)
    /\ name' = <<>>
    /\ ingredient_amount' = None
    /\ ingredient_modified' = NoString
    /\ ingredient_unit' = NoString
    /\ tk' = 1
    /\ UNCHANGED <<Input, metadata, pc, status, next_id>>

\* Rule::name and Rule::text
NameProperty ==
    /\ AtToken({"name", "text"})
    /\ name' = name \o CurTok.str \o <<" ">>
    /\ tk' = tk + 1
    /\ UNCHANGED <<Input, source_edited, metadata, pc, ingredient_amount,
                   ingredient_modified, ingredient_unit, status, next_id>>

\* a slip: the placeholder test of the last slot left out
NumberInnerNoPlaceholder(a, s) ==
    LET data_point == ParseUsize(s)
    IN IF data_point < 0 THEN Panic
       ELSE CASE a.tag = "None" -> Single(F(data_point))
              [] a.tag = "Multi" -> Panic
              [] a.tag = "Servings" ->
                    Servings(SubSeq(a.vs, 1, Len(a.vs) - 1)
                             \o <<FDiv(a.vs[Len(a.vs)], F(data_point))>>)
              [] a.tag = "Single" -> Single(FDiv(a.vs[1], F(data_point)))

\* the closure over the inner tokens of a number: one numeric token folded
\* into the amount under construction
NumberInner(a, s) ==
    LET data_point == ParseUsize(s)
    IN IF data_point < 0 THEN Panic
       ELSE CASE a.tag = "None" -> Single(F(data_point))
              [] a.tag = "Multi" -> Panic
              [] a.tag = "Servings" ->
                    LET last == Len(a.vs)
                    IN IF FIsZero(a.vs[last])
                       THEN Servings([a.vs EXCEPT ![last] = F(data_point)])
                       ELSE Servings(SubSeq(a.vs, 1, last - 1)
                                     \o <<FDiv(a.vs[last], F(data_point))>>)
              [] a.tag = "Single" -> Single(FDiv(a.vs[1], F(data_point)))

RECURSIVE NumberFold(_, _)
NumberFold(a, inner) ==
    IF inner = <<>> \/ a = Panic THEN a
    ELSE NumberFold(NumberInner(a, Head(inner)), Tail(inner))

\* a slip: a separator on Multi starts a servings list
SeparatorOnMulti(a) ==
    CASE a.tag = "None" -> Panic
      [] a.tag = "Servings" -> Servings(Append(a.vs, F(0)))
      [] OTHER -> Servings(<<a.vs[1], F(0)>>)

\* Rule::ingredient_separator
Separator(a) ==
    CASE a.tag = "None" -> Panic
      [] a.tag = "Multi" -> Panic
      [] a.tag = "Servings" -> Servings(Append(a.vs, F(0)))
      [] a.tag = "Single" -> Servings(<<a.vs[1], F(0)>>)

\* Rule::scaling
Scaling(a) == IF a.tag = "Single" THEN Multi(a.vs[1]) ELSE Panic

\* Rule::number
NumberProperty ==
    /\ AtToken({"number"})
    /\ LET a == NumberFold(ingredient_amount, CurTok.inner)
       IN IF a = Panic
          THEN /\ status' = "panicked"
               /\ UNCHANGED <<tk, ingredient_amount>>
          ELSE /\ ingredient_amount' = a
               /\ tk' = tk + 1
               /\ UNCHANGED status
    /\ UNCHANGED <<Input, source_edited, metadata, pc, name, ingredient_modified,
                   ingredient_unit, next_id>>

SeparatorProperty ==
    /\ AtToken({"ingredient_separator"})
    /\ LET a == Separator(ingredient_amount)
       IN IF a = Panic
          THEN /\ status' = "panicked"
               /\ UNCHANGED <<tk, ingredient_amount>>
          ELSE /\ ingredient_amount' = a
               /\ tk' = tk + 1
               /\ UNCHANGED status
    /\ UNCHANGED <<Input, source_edited, metadata, pc, name, ingredient_modified,
                   ingredient_unit, next_id>>

ScalingProperty ==
    /\ AtToken({"scaling"})
    /\ LET a == Scaling(ingredient_amount)
       IN IF a = Panic
          THEN /\ status' = "panicked"
               /\ UNCHANGED <<tk, ingredient_amount>>
          ELSE /\ ingredient_amount' = a
               /\ tk' = tk + 1
               /\ UNCHANGED status
    /\ UNCHANGED <<Input, source_edited, metadata, pc, name, ingredient_modified,
                   ingredient_unit, next_id>>

\* Rule::modified
ModifiedProperty ==
    /\ AtToken({"modified"})
    /\ IF CurTok.inner = <<>>
       THEN /\ status' = "panicked"
            /\ UNCHANGED <<tk, ingredient_modified>>
       ELSE /\ ingredient_modified' = SomeString(CurTok.inner[1])
            /\ tk' = tk + 1
            /\ UNCHANGED status
    /\ UNCHANGED <<Input, source_edited, metadata, pc, name, ingredient_amount,
                   ingredient_unit, next_id>>

\* Rule::unit
UnitProperty ==
    /\ AtToken({"unit"})
    /\ ingredient_unit' = SomeString(CurTok.str)
    /\ tk' = tk + 1
    /\ UNCHANGED <<Input, source_edited, metadata, pc, name, ingredient_amount,
                   ingredient_modified, status, next_id>>

\* ------------------------------------------- IndexMap<String, Ingredient>
\* an IndexMap is the sequence of its entries [key, value] in insertion order
Keys(m) == [i \in 1..Len(m) |-> m[i].key]
IndexOf(m, k) == IF \E i \in 1..Len(m) : m[i].key = k
                 THEN CHOOSE i \in 1..Len(m) : m[i].key = k ELSE 0

\* a slip: the lookup misses every key
ContainsKeyNever(m, k) == FALSE

\* IndexMap::contains_key
ContainsKey(m, k) == IndexOf(m, k) # 0

\* IndexMap::insert: a present key keeps its place and takes the new value
IndexMapInsert(m, k, v) ==
    IF IndexOf(m, k) # 0 THEN [m EXCEPT ![IndexOf(m, k)].value = v]
    ELSE Append(m, [key |-> k, value |-> v])

\* a slip: the amount of the specifier (Single(0) for a mention without
\* amount) is added instead of the mention's optional amount
MergeAddsAmountInStep(ingredient, amount, unit) ==
    LET step == IF amount = None THEN Single(F(0)) ELSE amount
        sum == IF ingredient.amount = None THEN Panic
               ELSE AmountAdd(ingredient.amount, step)
    IN IF sum = Panic THEN [ok |-> FALSE, ingredient |-> ingredient]
       ELSE IF ingredient.unit # unit
            THEN [ok |-> FALSE, ingredient |-> [ingredient EXCEPT !.amount = sum]]
            ELSE [ok |-> TRUE,
                  ingredient |-> [ingredient EXCEPT !.amount = sum, !.unit = unit]]

\* the branch of a name already in the map: the amount added, the unit
\* compared.  ok is FALSE for a panic; the stored amount is assigned before
\* the units are compared.
Merge(ingredient, amount, unit) ==
    LET sum == IF amount = None THEN ingredient.amount
               ELSE IF ingredient.amount = None THEN Panic
               ELSE AmountAdd(ingredient.amount, amount)
    IN IF sum = Panic THEN [ok |-> FALSE, ingredient |-> ingredient]
       ELSE IF ingredient.unit # unit
            THEN [ok |-> FALSE, ingredient |-> [ingredient EXCEPT !.amount = sum]]
            ELSE [ok |-> TRUE,
                  ingredient |-> [ingredient EXCEPT !.amount = sum, !.unit = unit]]

\* the name a mention's name and text tokens build: joined by a space, the
\* last space popped
TrimmedName(n) == IF Len(n) > 0 THEN SubSeq(n, 1, Len(n) - 1) ELSE n

IngredientSpecifier(n, amount) ==
    [ingredient |-> n,
     amount_in_step |-> IF amount = None THEN Single(F(0)) ELSE amount]

\* the end of the ingredient branch: the specifier pushed, the mention merged
\* into the map or inserted
FinishIngredient ==
    /\ Walking /\ Cur.kind = "ingredient" /\ tk = Len(Cur.inner) + 1
    /\ LET n == TrimmedName(name)
           pushed == [metadata EXCEPT !.ingredients_specifiers =
                         Append(@, IngredientSpecifier(n, ingredient_amount))]
           i == IndexOf(metadata.ingredients, n)
       IN IF ContainsKey(metadata.ingredients, n)
          THEN LET r == Merge(metadata.ingredients[i].value, ingredient_amount,
                              ingredient_unit)
               IN /\ metadata' = [pushed EXCEPT !.ingredients[i].value = r.ingredient]
                  /\ status' = IF r.ok THEN status ELSE "panicked"
                  /\ pc' = IF r.ok THEN pc + 1 ELSE pc
                  /\ tk' = IF r.ok THEN 0 ELSE tk
                  /\ UNCHANGED next_id
          ELSE /\ metadata' =
                     [pushed EXCEPT !.ingredients =
                         IndexMapInsert(@, n, [name |-> n, id |-> next_id,
                                               amount |-> ingredient_amount,
                                               unit |-> ingredient_unit])]
               /\ next_id' = next_id + 1
               /\ pc' = pc + 1
               /\ tk' = 0
               /\ UNCHANGED status
    /\ UNCHANGED <<Input, source_edited, Locals>>

\* ----------------------------------------------------------- cookware span
RECURSIVE JoinNames(_)
JoinNames(toks) ==
    IF toks = <<>> THEN <<>> ELSE Head(toks).str \o <<" ">> \o JoinNames(Tail(toks))

Cookware ==
    /\ Walking /\ Cur.kind = "cookware"
    /\ source_edited' = Replace(source_edited, Cur.text, <<"#">>)
    /\ IF Cur.inner = <<>>
       THEN /\ status' = "panicked"
            /\ UNCHANGED <<metadata, pc>>
       ELSE /\ metadata' = [metadata EXCEPT !.cookware =
                               Append(@, TrimmedName(JoinNames(Cur.inner)))]
            /\ pc' = pc + 1
            /\ UNCHANGED status
    /\ UNCHANGED <<Input, tk, Locals, next_id>>

\* -------------------------------------------------------------- timer span
RECURSIVE TimerFold(_, _)
TimerFold(timer, toks) ==
    IF toks = <<>> \/ ~timer.ok THEN timer
    ELSE LET t == Head(toks)
         IN IF t.rule = "number"
            THEN IF ParseUsize(t.str) < 0
                 THEN [timer EXCEPT !.ok = FALSE]
                 ELSE TimerFold([timer EXCEPT !.amount = F(ParseUsize(t.str))],
                                Tail(toks))
            ELSE TimerFold([timer EXCEPT !.unit = t.str], Tail(toks))

Timer ==
    /\ Walking /\ Cur.kind = "timer"
    /\ source_edited' = Replace(source_edited, Cur.text, <<"~">>)
    /\ LET timer == TimerFold([ok |-> TRUE, amount |-> F(0), unit |-> <<>>],
                              Cur.inner)
       IN IF timer.ok
          THEN /\ metadata' = [metadata EXCEPT !.timer =
                                  Append(@, [amount |-> timer.amount,
                                             unit |-> timer.unit])]
               /\ pc' = pc + 1
               /\ UNCHANGED status
          ELSE /\ status' = "panicked"
               /\ UNCHANGED <<metadata, pc>>
    /\ UNCHANGED <<Input, tk, Locals, next_id>>

\* ------------------------------------------------- comment span in a step
StepComment ==
    /\ Walking /\ Cur.kind = "step_comment"
    /\ source_edited' = Replace(source_edited, Cur.text, <<>>)
    /\ pc' = pc + 1
    /\ UNCHANGED <<Input, metadata, tk, Locals, status, next_id>>

\* text of a step that is no span: no branch of the walk acts on it
StepText ==
    /\ Walking /\ Cur.kind = "other"
    /\ pc' = pc + 1
    /\ UNCHANGED <<Input, source_edited, metadata, tk, Locals, status, next_id>>

\* Ok(recipe)
Return ==
    /\ status = "running" /\ pc = Len(pieces) + 1
    /\ status' = "returned"
    /\ UNCHANGED <<Input, source_edited, metadata, pc, tk, Locals, next_id>>

\* Recipe.instruction of the returned recipe
instruction == source_edited

IngredientSpan ==
    \/ BeginIngredient
    \/ NameProperty
    \/ NumberProperty
    \/ SeparatorProperty
    \/ ScalingProperty
    \/ ModifiedProperty
    \/ UnitProperty
    \/ FinishIngredient

Next ==
    \/ MetadataLine
    \/ CommentLine
    \/ IngredientSpan
    \/ Cookware
    \/ Timer
    \/ StepComment
    \/ StepText
    \/ Return

Spec == Init /\ [][Next]_vars

\* one ingredient mention of any sub-tokens, reduced
FoldNext == IngredientSpan \/ Return
FoldSpec == FoldInit /\ [][FoldNext]_vars

\* ================================================================== claims
\* what the claims read off the document and the result
Returned == status = "returned"
Processed == SubSeq(pieces, 1, pc - 1)
IsNameTok(t) == t.rule \in {"name", "text"}
IsAmountTok(t) == t.rule \in {"number", "ingredient_separator", "scaling"}
\* the name a mention displays: its name and text tokens joined by spaces
MentionName(piece) == TrimmedName(JoinNames(SelectSeq(piece.inner, IsNameTok)))
\* a mention that declares an amount
DeclaresAmount(piece) == \E i \in 1..Len(piece.inner) : piece.inner[i].rule = "number"
MarkerOf(kind) ==
    CASE kind = "ingredient" -> <<"@">>
      [] kind = "cookware" -> <<"#">>
      [] kind = "timer" -> <<"~">>
      [] OTHER -> <<>>
IsMarker(c) == c \in {"@", "#", "~"}
OfKind(ps, kind) == SelectSeq(ps, LAMBDA q : q.kind = kind)

\* C1: in a returned recipe the number of IngredientSpecifier entries equals
\* the number of '@' in instruction, the number of cookware entries the number
\* of '#', and the number of timer entries the number of '~'.
C1_ListLengthsEqualMarkerCounts ==
    Returned =>
        /\ Len(metadata.ingredients_specifiers) = Count("@", instruction)
        /\ Len(metadata.cookware) = Count("#", instruction)
        /\ Len(metadata.timer) = Count("~", instruction)

\* the markers of the mentions of the document, in document order
MentionMarkers(ps) ==
    Concat([i \in 1..Len(ps) |-> MarkerOf(ps[i].kind)])

\* C2: in a returned recipe the markers of instruction, read left to right,
\* are the mentions of the source in document order (the n-th '@' is the n-th
\* ingredient mention, and so on), and the n-th entry of each list is the
\* entry of the n-th mention of its kind, one entry per mention, cookware not
\* deduplicated.
C2_MarkersAlignWithLists ==
    Returned =>
        /\ SelectSeq(instruction, IsMarker) = MentionMarkers(pieces)
        /\ LET ing == OfKind(pieces, "ingredient")
               cw == OfKind(pieces, "cookware")
           IN /\ Len(metadata.ingredients_specifiers) = Len(ing)
              /\ \A i \in 1..Len(ing) :
                    metadata.ingredients_specifiers[i].ingredient = MentionName(ing[i])
              /\ Len(metadata.cookware) = Len(cw)
              /\ \A i \in 1..Len(cw) : metadata.cookware[i] = MentionName(cw[i])
              /\ Len(metadata.timer) = Len(OfKind(pieces, "timer"))

\* the amounts of the processed mentions that name n, in document order
SpecifierAmounts(n) ==
    LET sel == SelectSeq(metadata.ingredients_specifiers, LAMBDA sp : sp.ingredient = n)
    IN [i \in 1..Len(sel) |-> sel[i].amount_in_step]
MentionsOf(n) ==
    SelectSeq(Processed, LAMBDA q : q.kind = "ingredient" /\ MentionName(q) = n)
RECURSIVE SumValues(_, _)
SumValues(amounts, slot) ==
    IF amounts = <<>> THEN F(0)
    ELSE FAdd(SumValues(SubSeq(amounts, 1, Len(amounts) - 1), slot),
              amounts[Len(amounts)].vs[slot])

\* C3: once every mention of a name has been merged, if all of them declare
\* an amount of one variant (and the reduction has not failed), the map holds
\* one entry under the name whose amount is the variant-wise sum of the
\* mentions' amounts: the same variant, and for Servings every mention's list
\* as long as the stored one, each slot the sum of the mentions' slots.
C3_StoredAmountIsVariantwiseSum ==
    (status # "panicked" /\ tk = 0) =>
        \A i \in 1..Len(metadata.ingredients) :
            LET e == metadata.ingredients[i]
                ms == SpecifierAmounts(e.key)
            IN (/\ \A j \in 1..Len(MentionsOf(e.key)) : DeclaresAmount(MentionsOf(e.key)[j])
                /\ \A j \in 1..Len(ms) : ms[j].tag = ms[1].tag)
               => /\ Cardinality({k \in 1..Len(metadata.ingredients) :
                                    metadata.ingredients[k].key = e.key}) = 1
                  /\ e.value.amount.tag = ms[1].tag
                  /\ \A j \in 1..Len(ms) : Len(ms[j].vs) = Len(e.value.amount.vs)
                  /\ \A slot \in 1..Len(e.value.amount.vs) :
                        e.value.amount.vs[slot] = SumValues(ms, slot)

\* the merge step: the walk is at the end of a mention whose name is a key
AtMerge ==
    /\ Walking /\ Cur.kind = "ingredient" /\ tk = Len(Cur.inner) + 1
    /\ IndexOf(metadata.ingredients, TrimmedName(name)) # 0
Stored == metadata.ingredients[IndexOf(metadata.ingredients, TrimmedName(name))].value
StoredNext == metadata'.ingredients[IndexOf(metadata.ingredients, TrimmedName(name))].value

\* C4: a mention of a recorded ingredient that carries an amount of another
\* variant than the stored amount (or is stored with no amount), or whose
\* unit (absent or not) is not the stored unit, makes the reduction fail; and
\* no step ever changes the variant of a stored amount.
C4_MismatchedMergeFails ==
    [][ /\ ( /\ AtMerge
             /\ \/ /\ ingredient_amount # None
                   /\ ingredient_amount.tag # Stored.amount.tag
                \/ ingredient_unit # Stored.unit )
           => status' = "panicked"
        /\ \A i \in 1..Len(metadata.ingredients) :
              metadata'.ingredients[i].value.amount.tag
                  = metadata.ingredients[i].value.amount.tag ]_vars

\* C4 witness: the reduction has failed at the merge of a Single mention
\* into a stored Multi amount of the same unit.
C4_Witness ==
    /\ status = "panicked" /\ pc <= Len(pieces) /\ Cur.kind = "ingredient"
    /\ tk = Len(Cur.inner) + 1
    /\ IndexOf(metadata.ingredients, TrimmedName(name)) # 0
    /\ Stored.amount.tag = "Multi" /\ ingredient_amount.tag = "Single"
    /\ Stored.unit = ingredient_unit

\* C5: merging Servings(ys) into a stored Servings(xs) fails when the lengths
\* differ, and otherwise stores the element-wise sums, of that length.
C5_ServingsAddNeedsEqualLengths ==
    [][ ( /\ AtMerge
          /\ Stored.amount.tag = "Servings" /\ ingredient_amount.tag = "Servings" )
        => IF Len(Stored.amount.vs) # Len(ingredient_amount.vs)
           THEN status' = "panicked"
           ELSE /\ StoredNext.amount.tag = "Servings"
                /\ Len(StoredNext.amount.vs) = Len(Stored.amount.vs)
                /\ \A k \in 1..Len(Stored.amount.vs) :
                      StoredNext.amount.vs[k]
                          = FAdd(Stored.amount.vs[k], ingredient_amount.vs[k]) ]_vars

\* the text of the document outside comments and mentions
OutsideText(ps) ==
    Concat([i \in 1..Len(ps) |->
               IF ps[i].kind \in {"other", "metadata"} THEN ps[i].text ELSE <<>>])

\* C6: in a returned recipe, instruction without its markers is the text of
\* the source outside comment spans and mention spans, unchanged and in
\* order: nothing of a comment remains and nothing else is lost.
C6_CommentsGoneOtherTextKept ==
    Returned =>
        SelectSeq(instruction, LAMBDA c : ~IsMarker(c)) = OutsideText(pieces)

\* str::replacen(from, to, 1): the first match only
RECURSIVE ReplaceFirstAt(_, _, _, _)
ReplaceFirstAt(s, from, to, i) ==
    IF i > Len(s) + 1 - Len(from) THEN SubSeq(s, i, Len(s))
    ELSE IF MatchesAt(s, from, i) THEN to \o SubSeq(s, i + Len(from), Len(s))
    ELSE <<s[i]>> \o ReplaceFirstAt(s, from, to, i + 1)
ReplaceFirst(s, from, to) == ReplaceFirstAt(s, from, to, 1)

\* the step that edits the text for the span the walk is at
AtSpan ==
    /\ Walking
    /\ Cur.kind \in {"ingredient", "cookware", "timer", "comment", "step_comment"}
    /\ tk = 0

\* C7: the step that processes a span replaces the first occurrence of the
\* span's text in the edited text (by its marker, or by nothing for a
\* comment) and leaves every other occurrence and all other text unchanged.
C7_OnlyFirstOccurrenceReplaced ==
    [][ AtSpan =>
          source_edited' = ReplaceFirst(source_edited, Cur.text, MarkerOf(Cur.kind))
      ]_vars

\* the amount-changing sub-tokens of the mention folded so far
FoldedTokens == IF tk = 0 THEN <<>> ELSE SubSeq(Cur.inner, 1, tk - 1)
FoldedAmountToks == SelectSeq(FoldedTokens, IsAmountTok)
SeparatorsSeen ==
    Len(SelectSeq(FoldedTokens, LAMBDA t : t.rule = "ingredient_separator"))
InMention == pc <= Len(pieces) /\ Cur.kind = "ingredient" /\ tk >= 1
\* the value of a number token that holds one numeric token
NumberValue(t) == F(ParseUsize(t.inner[1]))

\* C8: a numeric token n folded into the amount under construction gives
\* Single(n) from no amount and Single(x / n) from Single(x); on Servings it
\* overwrites a last slot that is 0 with n and otherwise divides the last
\* slot by n, the earlier slots unchanged.  A separator turns Single(x) into
\* Servings([x, 0]) and appends a 0 slot to Servings.  So the tokens x,
\* separator, y give Servings([x, y]), and a Servings amount has one slot
\* more than separators were seen.
C8_NumberAndSeparatorFold ==
    [][ LET a == ingredient_amount
            b == ingredient_amount'
        IN /\ (AtToken({"number"}) /\ status' = "running") =>
                 LET n == NumberValue(CurTok)
                     last == Len(a.vs)
                 IN /\ a.tag = "None" => b = Single(n)
                    /\ a.tag = "Single" => b = Single(FDiv(a.vs[1], n))
                    /\ a.tag = "Servings" =>
                          /\ b.tag = "Servings" /\ Len(b.vs) = last
                          /\ \A k \in 1..(last - 1) : b.vs[k] = a.vs[k]
                          /\ b.vs[last] = IF a.vs[last] = F(0) THEN n
                                          ELSE FDiv(a.vs[last], n)
           /\ (AtToken({"ingredient_separator"}) /\ status' = "running") =>
                 /\ a.tag = "Single" => b = Servings(<<a.vs[1], F(0)>>)
                 /\ a.tag = "Servings" => b = Servings(a.vs \o <<F(0)>>)
           /\ (InMention /\ ingredient_amount.tag = "Servings") =>
                 Len(ingredient_amount.vs) = SeparatorsSeen + 1
           /\ ( /\ InMention /\ Len(FoldedAmountToks) = 3
                /\ FoldedAmountToks[1].rule = "number"
                /\ FoldedAmountToks[2].rule = "ingredient_separator"
                /\ FoldedAmountToks[3].rule = "number" ) =>
                 ingredient_amount = Servings(<<NumberValue(FoldedAmountToks[1]),
                                                NumberValue(FoldedAmountToks[3])>>)
      ]_vars

\* C8 witness: the tokens 1, separator, 2, 2 have been folded: the last slot,
\* filled with 2, was then divided by 2.
C8_Witness ==
    /\ InMention /\ status = "running" /\ Len(FoldedAmountToks) = 4
    /\ FoldedAmountToks[2].rule = "ingredient_separator"
    /\ FoldedAmountToks[4].rule = "number"
    /\ ingredient_amount = Servings(<<F(1), F(1)>>)

\* C9: a scaling token turns Single(x) into Multi(x) and fails on Multi,
\* Servings and no amount; a separator fails on Multi and on no amount; a
\* numeric token fails on Multi.  So an amount under construction is Multi
\* only when the scaling token was the last amount-changing token.
C9_IllegalTransitionsAbort ==
    [][ LET a == ingredient_amount
        IN /\ AtToken({"scaling"}) =>
                 IF a.tag = "Single"
                 THEN status' = "running" /\ ingredient_amount' = Multi(a.vs[1])
                 ELSE status' = "panicked"
           /\ (AtToken({"ingredient_separator"}) /\ a.tag \in {"Multi", "None"}) =>
                 status' = "panicked"
           /\ (AtToken({"number"}) /\ a.tag = "Multi" /\ CurTok.inner # <<>>) =>
                 status' = "panicked"
           /\ (InMention /\ a.tag = "Multi") =>
                 /\ FoldedAmountToks # <<>>
                 /\ FoldedAmountToks[Len(FoldedAmountToks)].rule = "scaling"
           /\ \A i \in 1..Len(metadata'.ingredients_specifiers) :
                 metadata'.ingredients_specifiers[i].amount_in_step.tag = "Multi" =>
                    LET toks == SelectSeq(OfKind(pieces, "ingredient")[i].inner,
                                          IsAmountTok)
                    IN toks # <<>> /\ toks[Len(toks)].rule = "scaling"
      ]_vars

\* C9 witness: the reduction has failed at a numeric token that follows the
\* scaling token.
C9_Witness ==
    /\ status = "panicked" /\ InMention /\ tk <= Len(Cur.inner)
    /\ CurTok.rule = "number" /\ ingredient_amount.tag = "Multi"

\* the names of the specifiers, each at its first mention only
RECURSIVE FirstMentions(_)
FirstMentions(sps) ==
    IF sps = <<>> THEN <<>>
    ELSE LET rest == FirstMentions(SubSeq(sps, 1, Len(sps) - 1))
             n == sps[Len(sps)].ingredient
         IN IF \E i \in 1..Len(rest) : rest[i] = n THEN rest ELSE Append(rest, n)

\* C10: the keys of Metadata.ingredients are the distinct mention names in
\* the order of their first mentions; a step leaves the key, name, id and
\* place of every entry unchanged, and an entry it adds is the new last one,
\* with an id no entry had.
C10_EntryCreatedOnceAtFirstMention ==
    [][ LET m == metadata.ingredients
            m2 == metadata'.ingredients
        IN /\ Keys(m2) = FirstMentions(metadata'.ingredients_specifiers)
           /\ Len(m2) \in {Len(m), Len(m) + 1}
           /\ \A i \in 1..Len(m) :
                 /\ m2[i].key = m[i].key
                 /\ m2[i].value.id = m[i].value.id
                 /\ m2[i].value.name = m[i].value.name
           /\ Len(m2) = Len(m) + 1 =>
                 /\ m2[Len(m2)].value.name = m2[Len(m2)].key
                 /\ \A i \in 1..Len(m) : m[i].value.id # m2[Len(m2)].value.id
      ]_vars

\* C10 witness: three mentions of two names have been reduced: s, then t u,
\* then s again; the map holds the two keys in that order.
C10_Witness ==
    /\ Returned
    /\ Len(metadata.ingredients_specifiers) = 3
    /\ metadata.ingredients_specifiers[3].ingredient = <<"s">>
    /\ Keys(metadata.ingredients) = << <<"s">>, <<"t", " ", "u">> >>

\* the end of a mention that carried no amount
AtFinishWithoutAmount ==
    /\ Walking /\ Cur.kind = "ingredient" /\ tk = Len(Cur.inner) + 1
    /\ ingredient_amount = None

\* C11: the end of a mention without amount appends the specifier of its
\* name with amount_in_step Single(0), whether or not the reduction goes on;
\* when the name is recorded with an amount and the units agree, the
\* reduction goes on and the stored amount is unchanged, of any variant; when
\* the units differ, the reduction fails.
C11_MentionWithoutAmount ==
    [][ AtFinishWithoutAmount =>
          /\ metadata'.ingredients_specifiers =
                Append(metadata.ingredients_specifiers,
                       [ingredient |-> TrimmedName(name),
                        amount_in_step |-> Single(F(0))])
          /\ (AtMerge /\ Stored.amount # None /\ Stored.unit = ingredient_unit) =>
                /\ status' = "running"
                /\ pc' = pc + 1
                /\ StoredNext.amount = Stored.amount
                /\ Len(metadata'.ingredients) = Len(metadata.ingredients)
          /\ (AtMerge /\ Stored.unit # ingredient_unit) => status' = "panicked"
      ]_vars

\* C11 witness: a recipe is returned for a scaled mention of s followed by a
\* mention of s without amount: the stored amount is still Multi(2) and the
\* second specifier holds Single(0).
C11_Witness ==
    /\ Returned /\ Len(pieces) = 2
    /\ pieces[2].kind = "ingredient" /\ ~DeclaresAmount(pieces[2])
    /\ Len(metadata.ingredients) = 1
    /\ metadata.ingredients[1].value.amount = Multi(F(2))
    /\ Len(metadata.ingredients_specifiers) = 2
    /\ metadata.ingredients_specifiers[2].amount_in_step = Single(F(0))

====
